---- MODULE Spec2Model ----
(***************************************************************************)
(* Model of src/geoblock.py: the interception-and-decision loop            *)
(* block_countries_for_process, the memoised country resolver              *)
(* get_ip_country, the address predicate is_local_ip and the SIGINT        *)
(* handler _signal_stop.                                                   *)
(*                                                                         *)
(* The WinDivert handle w is an object with three states: "unopened",      *)
(* "open", "closed".  recv() and send() raise on a handle that is not      *)
(* open, close() raises on a handle that is not open (pydivert).  print    *)
(* is taken not to raise, as the code does (it prints outside every try    *)
(* and inside the except handlers).                                        *)
(*                                                                         *)
(* The handler may run between any two steps of the loop, also while the   *)
(* loop is blocked in recv(), and between the test of RUNNING in an except *)
(* handler and the print that the test guards.                             *)
(***************************************************************************)
EXTENDS Integers, FiniteSets, Sequences, TLC

(* ---------------- bounds of the model ---------------- *)
\* packets the interception facility delivers in one run
MaxPackets == 2
\* stop signals delivered to the process
MaxSignals == 2

(* ---------------- configuration (geoblock.py:10-14) ---------------- *)
_BLOCK_COUNTRIES == {"GB", "DE"}
MIN_DST_PORT == 15000
MAX_DST_PORT == 15999

(* ---------------- values ---------------- *)
\* Python's None (a country that did not resolve, an absent port)
None == "None"
\* no key in the dict _IP_COUNTRY_CACHE
Absent == "absent"
\* getattr(pkt, 'dst_port', None) of a packet without a port
NoPort == -1
\* no packet held by the loop variable pkt yet
NoPkt == [addr |-> "-", port |-> NoPort]
\* a None yielded by the iterator (geoblock.py:122)
NonePkt == [addr |-> None, port |-> NoPort]

\* destination addresses of the intercepted packets
LocalAddrs == {"192.168.1.5", "127.0.0.1", "169.254.0.7"}
PublicAddrs == {"8.8.8.8", "5.9.0.1", "2.2.2.2", "9.9.9.9"}
Addrs == LocalAddrs \cup PublicAddrs
\* destination ports: the window's edges on both sides, and no port at all
Ports == {NoPort, 15000, 15001, 15999, 16000}
Packets == [addr : Addrs, port : Ports]

\* what ipaddress.ip_address(ip) reports for the address
is_private(ip) == ip \in {"192.168.1.5", "127.0.0.1", "169.254.0.7"}
is_loopback(ip) == ip = "127.0.0.1"
is_link_local(ip) == ip = "169.254.0.7"

\* the geolocation database: the iso_code the reader returns for an address,
\* None for an address it has no country for
GeoDB(ip) ==
  CASE ip = "8.8.8.8" -> "US"
    [] ip = "5.9.0.1" -> "DE"
    [] ip = "2.2.2.2" -> "gb"
    [] OTHER -> None

\* str.upper() on the country codes of the model
Upper(c) ==
  CASE c = "gb" -> "GB"
    [] c = "Unknown" -> "UNKNOWN"
    [] OTHER -> c

VARIABLES
  RUNNING,            \* geoblock.py:7, the stop flag
  CURRENT_DIVERT,     \* geoblock.py:8, the published handle reference: None or "w"
  _IP_COUNTRY_CACHE,  \* geoblock.py:11, address -> country | None | Absent
  _GEOIP_READER,      \* geoblock.py:70/74: TRUE iff the database was loaded
  handle,             \* state of the WinDivert object w
  pc,                 \* position of block_countries_for_process
  pkt,                \* the loop variable pkt
  country,            \* the local variable country of the current iteration
  rule,               \* branch of the decision chain the current iteration took
  sent,               \* successful w.send(pkt) calls of the current iteration
  fault,              \* an exception reached the per-packet handler in this iteration
  afterStop,          \* the current packet was received after a stop signal
  sendsAfterStop,     \* successful sends since the first stop signal
  queries,            \* address -> number of _GEOIP_READER.country(ip) calls
  reports,            \* error kind -> number of times the loop printed it
  forcedClose,        \* what the handler's last CURRENT_DIVERT.close() did
  recvFail,           \* "none", or the stop flag's state when next(w) raised
  stoppedAtStart,     \* the stop flag was already set when the run started
  nRecv,              \* packets delivered so far
  sigCount            \* stop signals delivered so far

vars == <<RUNNING, CURRENT_DIVERT, _IP_COUNTRY_CACHE, _GEOIP_READER, handle, pc,
          pkt, country, rule, sent, fault, afterStop, sendsAfterStop, queries,
          reports, forcedClose, recvFail, stoppedAtStart, nRecv,
          sigCount>>

\* the variables that describe the iteration in progress
iter == <<pkt, country, rule, sent, fault, afterStop>>
\* the resolver's state
geo == <<_IP_COUNTRY_CACHE, queries>>
\* what the run remembers of how it started and how its receive failed
hist == <<recvFail, stoppedAtStart>>

ReportKinds == {"setup", "recv", "packet"}

Init ==
  /\ RUNNING = TRUE
  /\ CURRENT_DIVERT = None
  /\ _IP_COUNTRY_CACHE = [a \in Addrs |-> Absent]
  /\ _GEOIP_READER \in BOOLEAN
  /\ handle = "unopened"
  /\ pc = "idle"
  /\ pkt = NoPkt
  /\ country = None
  /\ rule = "none"
  /\ sent = 0
  /\ fault = FALSE
  /\ afterStop = FALSE
  /\ sendsAfterStop = 0
  /\ queries = [a \in Addrs |-> 0]
  /\ reports = [k \in ReportKinds |-> 0]
  /\ forcedClose = "none"
  /\ recvFail = "none"
  /\ stoppedAtStart = FALSE
  /\ nRecv = 0
  /\ sigCount = 0

(* ---------------- pure helpers ---------------- *)

\* the test answering as its except branch does for every address
is_local_ip_unparsed(ip) == FALSE

\* geoblock.py:17-22 (the except branch returns False: no address of the model
\* fails to parse)
is_local_ip(ip) == is_private(ip) \/ is_loopback(ip) \/ is_link_local(ip)

\* the window with its lower bound inclusive
out_of_window_inclusive_min(dst_port) ==
  dst_port = NoPort \/ dst_port < MIN_DST_PORT \/ dst_port > MAX_DST_PORT

\* geoblock.py:134, the condition under which the packet is passed unfiltered
out_of_window(dst_port) ==
  dst_port = NoPort \/ dst_port <= MIN_DST_PORT \/ dst_port > MAX_DST_PORT

\* geoblock.py:138, get_ip_country(dst) or 'Unknown'
or_unknown(c) == IF c = None THEN "Unknown" ELSE c

\* the membership test without upper()
is_blocked_case_sensitive(c) == c # None /\ c \in _BLOCK_COUNTRIES

\* geoblock.py:139, country and country.upper() in _BLOCK_COUNTRIES
is_blocked(c) == c # None /\ Upper(c) \in _BLOCK_COUNTRIES

\* geoblock.py:79, _IP_COUNTRY_CACHE.get(ip): None for a missing key
cache_get(cache, ip) == IF cache[ip] = Absent THEN None ELSE cache[ip]

\* geoblock.py:80, v is not None
cache_hit(v) == v # None

\* the lookup without the test of _GEOIP_READER
lookup_results_ignores_reader(reader, ip) == {GeoDB(ip), None}

\* geoblock.py:83-88, the answers one lookup of ip can give: the database's
\* record, or None when there is no reader or the query raises
lookup_results(reader, ip) == IF reader THEN {GeoDB(ip), None} ELSE {None}

\* the stop check left out: the loop never looks at RUNNING
stop_requested_ignored(running) == FALSE

\* geoblock.py:119, if not RUNNING
stop_requested(running) == ~running

\* the iteration's variables at the moment recv() returns p
NewIteration(p) ==
  /\ pkt' = p
  /\ country' = None
  /\ rule' = "none"
  /\ sent' = 0
  /\ fault' = FALSE
  /\ afterStop' = (sigCount > 0)

Report(kind) == reports' = [reports EXCEPT ![kind] = @ + 1]

(* ---------------- _signal_stop (geoblock.py:93-101) ---------------- *)

\* the effect of CURRENT_DIVERT.close() inside the handler's try: an open handle
\* is closed, or close() raises and the handle stays as it was; the exception is
\* swallowed either way
forced_close(h) == IF h = "open" THEN {"closed", "open"} ELSE {h}

\* what a close() that took the handle from h to h2 did: "closed" it, "failed" on
\* an open handle, or raised because the handle was "already" not open
close_outcome(h, h2) ==
  IF h # "open" THEN "already" ELSE IF h2 = "closed" THEN "closed" ELSE "failed"

\* the handler setting the flag and leaving the handle to the loop
_signal_stop_flag_only ==
  /\ sigCount < MaxSignals
  /\ sigCount' = sigCount + 1
  /\ RUNNING' = FALSE
  /\ UNCHANGED <<handle, forcedClose, CURRENT_DIVERT, pc, iter, sendsAfterStop, geo,
                 _GEOIP_READER, reports, hist, nRecv>>

\* the handler dropping the reference once it has closed the handle
_signal_stop_clears_ref ==
  /\ sigCount < MaxSignals
  /\ sigCount' = sigCount + 1
  /\ RUNNING' = FALSE
  /\ IF CURRENT_DIVERT # None
       THEN /\ handle' \in forced_close(handle)
            /\ forcedClose' = close_outcome(handle, handle')
       ELSE UNCHANGED <<handle, forcedClose>>
  /\ CURRENT_DIVERT' = None
  /\ UNCHANGED <<pc, iter, sendsAfterStop, geo, _GEOIP_READER, reports, hist, nRecv>>

_signal_stop ==
  /\ sigCount < MaxSignals
  /\ sigCount' = sigCount + 1
  /\ RUNNING' = FALSE
  /\ IF CURRENT_DIVERT # None
       THEN /\ handle' \in forced_close(handle)
            /\ forcedClose' = close_outcome(handle, handle')
       ELSE UNCHANGED <<handle, forcedClose>>
  /\ UNCHANGED <<CURRENT_DIVERT, pc, iter, sendsAfterStop, geo, _GEOIP_READER,
                 reports, hist, nRecv>>

(* ---------------- block_countries_for_process ---------------- *)

\* a start that re-arms the stop flag
Start_rearms ==
  /\ pc = "idle"
  /\ pc' = "open"
  /\ stoppedAtStart' = ~RUNNING
  /\ RUNNING' = TRUE
  /\ UNCHANGED <<forcedClose, recvFail, CURRENT_DIVERT, handle, iter, sendsAfterStop, geo,
                 _GEOIP_READER, reports, nRecv, sigCount>>

\* geoblock.py:107-114
Start ==
  /\ pc = "idle"
  /\ pc' = "open"
  /\ stoppedAtStart' = ~RUNNING
  /\ UNCHANGED <<forcedClose, recvFail, RUNNING, CURRENT_DIVERT, handle, iter, sendsAfterStop, geo,
                 _GEOIP_READER, reports, nRecv, sigCount>>

\* geoblock.py:115, WinDivert("outbound and ip").__enter__() succeeds
OpenOk ==
  /\ pc = "open"
  /\ handle' = "open"
  /\ pc' = "publish"
  /\ UNCHANGED <<forcedClose, hist, RUNNING, CURRENT_DIVERT, iter, sendsAfterStop, geo,
                 _GEOIP_READER, reports, nRecv, sigCount>>

\* geoblock.py:115, opening the handle raises
OpenFail ==
  /\ pc = "open"
  /\ pc' = "setup_err"
  /\ UNCHANGED <<forcedClose, hist, RUNNING, CURRENT_DIVERT, handle, iter, sendsAfterStop, geo,
                 _GEOIP_READER, reports, nRecv, sigCount>>

\* geoblock.py:116
Publish ==
  /\ pc = "publish"
  /\ CURRENT_DIVERT' = "w"
  /\ pc' = "recv"
  /\ UNCHANGED <<forcedClose, hist, RUNNING, handle, iter, sendsAfterStop, geo, _GEOIP_READER,
                 reports, nRecv, sigCount>>

\* geoblock.py:118, next(w) returns a packet (or None) the facility delivered
RecvPacket ==
  /\ pc = "recv"
  /\ handle = "open"
  /\ nRecv < MaxPackets
  /\ \E p \in Packets \cup {NonePkt} : NewIteration(p)
  /\ nRecv' = nRecv + 1
  /\ pc' = "check"
  /\ UNCHANGED <<forcedClose, hist, RUNNING, CURRENT_DIVERT, handle, sendsAfterStop, geo,
                 _GEOIP_READER, reports, sigCount>>

\* geoblock.py:118, next(w) raises because the handle is not open any more
RecvClosed ==
  /\ pc = "recv"
  /\ handle # "open"
  /\ pc' = "recv_err"
  /\ recvFail' = IF RUNNING THEN "running" ELSE "stopping"
  /\ UNCHANGED <<forcedClose, stoppedAtStart, RUNNING, CURRENT_DIVERT, handle, iter, sendsAfterStop, geo,
                 _GEOIP_READER, reports, nRecv, sigCount>>

\* geoblock.py:118, next(w) raises on an open handle (a driver error)
RecvError ==
  /\ pc = "recv"
  /\ handle = "open"
  /\ pc' = "recv_err"
  /\ recvFail' = IF RUNNING THEN "running" ELSE "stopping"
  /\ UNCHANGED <<forcedClose, stoppedAtStart, RUNNING, CURRENT_DIVERT, handle, iter, sendsAfterStop, geo,
                 _GEOIP_READER, reports, nRecv, sigCount>>

\* geoblock.py:119-136: the stop check, the None check, the local bypass and
\* the port window; leaves at the statement the packet goes to next
Check ==
  /\ pc = "check"
  /\ IF stop_requested(RUNNING)
       THEN pc' = "exit_with" /\ rule' = rule
       ELSE IF pkt = NonePkt
         THEN pc' = "recv" /\ rule' = rule
         ELSE IF is_local_ip(pkt.addr)
           THEN pc' = "send" /\ rule' = "local"
           ELSE IF out_of_window(pkt.port)
             THEN pc' = "send" /\ rule' = "port"
             ELSE pc' = "lookup" /\ rule' = rule
  /\ UNCHANGED <<forcedClose, hist, RUNNING, CURRENT_DIVERT, handle, pkt, country, sent, fault,
                 afterStop, sendsAfterStop, geo, _GEOIP_READER, reports, nRecv,
                 sigCount>>

\* get_ip_country(ip), geoblock.py:77-90: r is the value returned
get_ip_country(ip, r) ==
  LET v == cache_get(_IP_COUNTRY_CACHE, ip) IN
  IF cache_hit(v)
    THEN r = v /\ UNCHANGED geo
    ELSE /\ r \in lookup_results(_GEOIP_READER, ip)
         /\ _IP_COUNTRY_CACHE' = [_IP_COUNTRY_CACHE EXCEPT ![ip] = r]
         /\ queries' = [queries EXCEPT ![ip] = IF _GEOIP_READER THEN @ + 1 ELSE @]

\* the drop branch without its continue: a blocked packet falls through to send
Lookup_falls_through ==
  /\ pc = "lookup"
  /\ \E r \in {GeoDB(a) : a \in Addrs} \cup {None} :
       /\ get_ip_country(pkt.addr, r)
       /\ country' = or_unknown(r)
  /\ pc' = "send"
  /\ rule' = IF is_blocked(country') THEN "blocked" ELSE "allowed"
  /\ UNCHANGED <<forcedClose, hist, RUNNING, CURRENT_DIVERT, handle, pkt, sent, fault, afterStop,
                 sendsAfterStop, _GEOIP_READER, reports, nRecv, sigCount>>

\* geoblock.py:138-144: resolve the country, drop (continue) or go on to send
Lookup ==
  /\ pc = "lookup"
  /\ \E r \in {GeoDB(a) : a \in Addrs} \cup {None} :
       /\ get_ip_country(pkt.addr, r)
       /\ country' = or_unknown(r)
  /\ IF is_blocked(country')
       THEN pc' = "recv" /\ rule' = "blocked"
       ELSE pc' = "send" /\ rule' = "allowed"
  /\ UNCHANGED <<forcedClose, hist, RUNNING, CURRENT_DIVERT, handle, pkt, sent, fault, afterStop,
                 sendsAfterStop, _GEOIP_READER, reports, nRecv, sigCount>>

\* a w.send(pkt) that re-injects the packet
Sent ==
  /\ sent' = sent + 1
  /\ sendsAfterStop' = IF sigCount > 0 THEN sendsAfterStop + 1 ELSE sendsAfterStop

\* geoblock.py:128, 135, 145: w.send(pkt) succeeds, the iteration ends
SendOk ==
  /\ pc = "send"
  /\ handle = "open"
  /\ Sent
  /\ pc' = "recv"
  /\ UNCHANGED <<forcedClose, hist, RUNNING, CURRENT_DIVERT, handle, pkt, country, rule, fault,
                 afterStop, geo, _GEOIP_READER, reports, nRecv, sigCount>>

\* a w.send(pkt) that raises although the packet went out
SendFail_after_send ==
  /\ pc = "send"
  /\ handle = "open"
  /\ Sent
  /\ fault' = TRUE
  /\ pc' = "pkt_err"
  /\ UNCHANGED <<forcedClose, hist, RUNNING, CURRENT_DIVERT, handle, pkt, country, rule,
                 afterStop, geo, _GEOIP_READER, reports, nRecv, sigCount>>

\* geoblock.py:128, 135, 145: w.send(pkt) raises (the handle was closed, or the
\* driver refused the packet); control goes to the handler at line 146
SendFail ==
  /\ pc = "send"
  /\ fault' = TRUE
  /\ pc' = "pkt_err"
  /\ UNCHANGED <<forcedClose, hist, RUNNING, CURRENT_DIVERT, handle, pkt, country, rule, sent,
                 afterStop, sendsAfterStop, geo, _GEOIP_READER, reports, nRecv,
                 sigCount>>

\* geoblock.py:146-148: break when stopping, otherwise go on to report
PktErr ==
  /\ pc = "pkt_err"
  /\ pc' = IF stop_requested(RUNNING) THEN "exit_with" ELSE "pkt_report"
  /\ UNCHANGED <<forcedClose, hist, RUNNING, CURRENT_DIVERT, handle, iter,
                 sendsAfterStop, geo, _GEOIP_READER, reports, nRecv, sigCount>>

\* the per-packet handler without its second send
PktReport_gives_up ==
  /\ pc = "pkt_report"
  /\ Report("packet")
  /\ pc' = "recv"
  /\ UNCHANGED <<forcedClose, hist, RUNNING, CURRENT_DIVERT, handle, iter,
                 sendsAfterStop, geo, _GEOIP_READER, nRecv, sigCount>>

\* geoblock.py:150, print the per-packet error
PktReport ==
  /\ pc = "pkt_report"
  /\ Report("packet")
  /\ pc' = "resend"
  /\ UNCHANGED <<forcedClose, hist, RUNNING, CURRENT_DIVERT, handle, iter,
                 sendsAfterStop, geo, _GEOIP_READER, nRecv, sigCount>>

\* geoblock.py:151-152: the second w.send(pkt) succeeds
ResendOk ==
  /\ pc = "resend"
  /\ handle = "open"
  /\ Sent
  /\ pc' = "recv"
  /\ UNCHANGED <<forcedClose, hist, RUNNING, CURRENT_DIVERT, handle, pkt, country, rule, fault,
                 afterStop, geo, _GEOIP_READER, reports, nRecv, sigCount>>

\* geoblock.py:151-154: the second w.send(pkt) raises and is swallowed
ResendFail ==
  /\ pc = "resend"
  /\ pc' = "recv"
  /\ UNCHANGED <<forcedClose, hist, RUNNING, CURRENT_DIVERT, handle, iter, sendsAfterStop, geo,
                 _GEOIP_READER, reports, nRecv, sigCount>>

\* the iterator's handler without its test of RUNNING
RecvErr_always_reports ==
  /\ pc = "recv_err"
  /\ pc' = "recv_report"
  /\ UNCHANGED <<forcedClose, hist, RUNNING, CURRENT_DIVERT, handle, iter,
                 sendsAfterStop, geo, _GEOIP_READER, reports, nRecv, sigCount>>

\* the iterator's handler swallowing the error without a report
RecvErr_silent ==
  /\ pc = "recv_err"
  /\ pc' = "exit_with"
  /\ UNCHANGED <<forcedClose, hist, RUNNING, CURRENT_DIVERT, handle, iter,
                 sendsAfterStop, geo, _GEOIP_READER, reports, nRecv, sigCount>>

\* geoblock.py:155-157: the iterator raised; the error is reported unless stopping
RecvErr ==
  /\ pc = "recv_err"
  /\ pc' = IF RUNNING THEN "recv_report" ELSE "exit_with"
  /\ UNCHANGED <<forcedClose, hist, RUNNING, CURRENT_DIVERT, handle, iter,
                 sendsAfterStop, geo, _GEOIP_READER, reports, nRecv, sigCount>>

\* geoblock.py:158, print the WinDivert error
RecvReport ==
  /\ pc = "recv_report"
  /\ Report("recv")
  /\ pc' = "exit_with"
  /\ UNCHANGED <<forcedClose, hist, RUNNING, CURRENT_DIVERT, handle, iter,
                 sendsAfterStop, geo, _GEOIP_READER, nRecv, sigCount>>

\* geoblock.py:115, leaving the with block: w.close() on the open handle
ExitClose ==
  /\ pc = "exit_with"
  /\ handle = "open"
  /\ handle' = "closed"
  /\ pc' = "finally"
  /\ UNCHANGED <<forcedClose, hist, RUNNING, CURRENT_DIVERT, iter, sendsAfterStop, geo,
                 _GEOIP_READER, reports, nRecv, sigCount>>

\* geoblock.py:115, leaving the with block: w.close() raises (the handler has
\* closed the handle already, or the driver fails); caught at line 159
ExitCloseFail ==
  /\ pc = "exit_with"
  /\ pc' = "setup_err"
  /\ UNCHANGED <<forcedClose, hist, RUNNING, CURRENT_DIVERT, handle, iter, sendsAfterStop, geo,
                 _GEOIP_READER, reports, nRecv, sigCount>>

\* the outer handler without its test of RUNNING
SetupErr_always_reports ==
  /\ pc = "setup_err"
  /\ pc' = "setup_report"
  /\ UNCHANGED <<forcedClose, hist, RUNNING, CURRENT_DIVERT, handle, iter,
                 sendsAfterStop, geo, _GEOIP_READER, reports, nRecv, sigCount>>

\* geoblock.py:159-160: the outer handler; the error is reported unless stopping
SetupErr ==
  /\ pc = "setup_err"
  /\ pc' = IF RUNNING THEN "setup_report" ELSE "finally"
  /\ UNCHANGED <<forcedClose, hist, RUNNING, CURRENT_DIVERT, handle, iter,
                 sendsAfterStop, geo, _GEOIP_READER, reports, nRecv, sigCount>>

\* geoblock.py:161, print the setup error
SetupReport ==
  /\ pc = "setup_report"
  /\ Report("setup")
  /\ pc' = "finally"
  /\ UNCHANGED <<forcedClose, hist, RUNNING, CURRENT_DIVERT, handle, iter,
                 sendsAfterStop, geo, _GEOIP_READER, nRecv, sigCount>>

\* the finally clause without its assignment
Finally_keeps_ref ==
  /\ pc = "finally"
  /\ pc' = "closed"
  /\ UNCHANGED <<forcedClose, hist, RUNNING, CURRENT_DIVERT, handle, iter, sendsAfterStop, geo,
                 _GEOIP_READER, reports, nRecv, sigCount>>

\* geoblock.py:162-163
Finally ==
  /\ pc = "finally"
  /\ CURRENT_DIVERT' = None
  /\ pc' = "closed"
  /\ UNCHANGED <<forcedClose, hist, RUNNING, handle, iter, sendsAfterStop, geo, _GEOIP_READER,
                 reports, nRecv, sigCount>>

(* ---------------- specifications ---------------- *)

\* the steps the loop takes on its own, without the facility delivering anything
LoopStep ==
  \/ Start \/ OpenOk \/ OpenFail \/ Publish \/ RecvClosed \/ Check \/ Lookup
  \/ SendOk \/ SendFail \/ PktErr \/ PktReport \/ ResendOk \/ ResendFail
  \/ RecvErr \/ RecvReport \/ ExitClose \/ ExitCloseFail \/ SetupErr
  \/ SetupReport \/ Finally

Next ==
  \/ _signal_stop
  \/ Start
  \/ OpenOk
  \/ OpenFail
  \/ Publish
  \/ RecvPacket
  \/ RecvClosed
  \/ RecvError
  \/ Check
  \/ Lookup
  \/ SendOk
  \/ SendFail
  \/ PktErr
  \/ PktReport
  \/ ResendOk
  \/ ResendFail
  \/ RecvErr
  \/ RecvReport
  \/ ExitClose
  \/ ExitCloseFail
  \/ SetupErr
  \/ SetupReport
  \/ Finally

Spec == Init /\ [][Next]_vars

\* the interpreter keeps running the loop: a step the loop can take on its own is
\* eventually taken; nothing obliges the facility to deliver a packet or the user
\* to send a signal
FairSpec == Spec /\ WF_vars(LoopStep)

(* ---------------- shutdown ---------------- *)

\* C1: once _signal_stop has fired, a packet received after that point is never
\* re-injected, and at most one send succeeds after the signal (that of the
\* packet that was being handled when it fired), whether or not the forced
\* close closed the handle.
NoSendAfterStop ==
  /\ afterStop => sent = 0
  /\ sendsAfterStop <= 1

\* C1 witness: the signal fired while a packet was being handled and the forced
\* close failed, that packet was still sent, a later packet was received and
\* not sent, and the run is over.
NoSendAfterStop_witness ==
  /\ pc = "closed"
  /\ afterStop
  /\ pkt \in Packets
  /\ sendsAfterStop = 1

\* C2 (the claim as stated): whenever the stop signal has fired, the run
\* reaches Closed with no further packet needed (the case of a forced close that
\* itself raised on the open handle is left aside).
StopLeadsToClosed == (sigCount > 0) ~> (pc = "closed" \/ forcedClose = "failed")

\* C3 (the claim as stated): when the loop has ended after a stop signal, the
\* last packet it received before the signal, if no send of it raised, was
\* decided by the chain and, unless the decision was to drop it, re-injected.
InFlightNotLost ==
  (/\ pc \in {"exit_with", "setup_err", "setup_report", "finally", "closed"}
   /\ sigCount > 0
   /\ pkt \in Packets
   /\ ~afterStop
   /\ ~fault)
  => (rule # "none" /\ (rule # "blocked" => sent = 1))

\* C4: when block_countries_for_process has returned, CURRENT_DIVERT is None.
ClosedClearsRef == pc = "closed" => CURRENT_DIVERT = None

\* C4 witness: the run ended after a stop signal whose handler closed the
\* published handle, so that the close on leaving the with block raised.
ClosedClearsRef_witness ==
  /\ pc = "closed"
  /\ sigCount > 0
  /\ handle = "closed"
  /\ nRecv > 0
  /\ CURRENT_DIVERT = None

\* C5 (the claim as stated): CURRENT_DIVERT is non-null only while the handle is
\* open and the loop is running.
RefOnlyWhileOpen ==
  CURRENT_DIVERT # None => (handle = "open" /\ pc \notin {"idle", "closed"})

(* ---------------- the decision chain ---------------- *)

\* the blocked set of the configuration in every spelling of its codes
BlockedAnyCase == {"GB", "Gb", "gB", "gb", "DE", "De", "dE", "de"}

\* the port is present and inside the configured window 15000 / 15999
InConfiguredWindow(port) == port # NoPort /\ 15000 < port /\ port <= 15999

\* the decision the ordered chain of the claim gives: the first matching rule
ChainRule(p, c) ==
  IF p.addr \in LocalAddrs THEN "local"
  ELSE IF ~InConfiguredWindow(p.port) THEN "port"
  ELSE IF c \in BlockedAnyCase THEN "blocked"
  ELSE "allowed"

\* C6: for a packet handled with the stop flag unset and no error, the loop took
\* the first matching rule of the chain local / out of window / blocked country
\* / allowed, and re-injected the packet exactly once unless that rule is the
\* blocked country, in which case it did not re-inject it.
ChainOutcome ==
  (/\ pc = "recv"
   /\ pkt \in Packets
   /\ rule # "none"
   /\ ~fault
   /\ RUNNING)
  => /\ rule = ChainRule(pkt, country)
     /\ sent = IF rule = "blocked" THEN 0 ELSE 1
     /\ rule \in {"blocked", "allowed"}
          => country \in {or_unknown(GeoDB(pkt.addr)), "Unknown"}

\* C6 witness: a non-local, in-window packet whose country resolved to the
\* lower-case spelling of a blocked code was dropped.
ChainOutcome_witness ==
  /\ pc = "recv"
  /\ RUNNING
  /\ ~fault
  /\ rule = "blocked"
  /\ country = "gb"
  /\ sent = 0

BlockedNeverSent ==
  (pkt \in Packets /\ country \in BlockedAnyCase)
  => /\ sent = 0
     /\ rule = "blocked"
     /\ pc \notin {"send", "pkt_err", "pkt_report", "resend"}

\* C8 witness: a non-local, in-window packet resolved to DE ended its iteration
\* without a send.
BlockedNeverSent_witness ==
  /\ pkt \in Packets
  /\ pkt.addr \notin LocalAddrs
  /\ InConfiguredWindow(pkt.port)
  /\ country = "DE"
  /\ pc = "recv"
  /\ sent = 0

(* ---------------- the resolver ---------------- *)

\* C9 (the claim as stated): a call of get_ip_country for an address that has a
\* cache entry, None included, returns that entry and queries nothing; no
\* address is queried twice in a run.
LookupIdempotent ==
  [][/\ \A a \in Addrs : queries'[a] <= 1
     /\ (pc = "lookup" /\ pc' # "lookup" /\ _IP_COUNTRY_CACHE[pkt.addr] # Absent)
          => /\ country' = or_unknown(_IP_COUNTRY_CACHE[pkt.addr])
             /\ queries' = queries]_vars

\* C10 (the claim as stated): an entry of _IP_COUNTRY_CACHE, once made, is never
\* removed and never changes its value.
CacheEntriesStable ==
  [][\A a \in Addrs :
       _IP_COUNTRY_CACHE[a] # Absent
         => _IP_COUNTRY_CACHE'[a] = _IP_COUNTRY_CACHE[a]]_vars

\* C11: when the database failed to load, get_ip_country never queries it and
\* only ever returns (and caches) None, the drop branch is never taken, and a
\* non-local in-window packet whose iteration ended without an exception was
\* re-injected.
FailOpenWithoutReader ==
  ~_GEOIP_READER
  => /\ \A a \in Addrs : queries[a] = 0 /\ _IP_COUNTRY_CACHE[a] \in {Absent, None}
     /\ country \in {None, "Unknown"}
     /\ rule # "blocked"
     /\ (/\ pc = "recv"
         /\ pkt \in Packets
         /\ pkt.addr \notin LocalAddrs
         /\ InConfiguredWindow(pkt.port)
         /\ ~fault) => (rule = "allowed" /\ sent = 1)

\* C11 witness: without a reader, a packet to an address the database places in
\* a blocked country was looked up, found Unknown and re-injected.
FailOpenWithoutReader_witness ==
  /\ ~_GEOIP_READER
  /\ pkt \in Packets
  /\ pkt.addr = "5.9.0.1"
  /\ _IP_COUNTRY_CACHE["5.9.0.1"] = None
  /\ country = "Unknown"
  /\ rule = "allowed"
  /\ sent = 1

(* ---------------- errors ---------------- *)

\* C12 (the claim as stated): when opening the handle failed and the run is
\* over, the setup error was reported exactly once, no packet was received or
\* re-injected and the reference was never published.
SetupErrorReportedOnce ==
  (pc = "closed" /\ handle = "unopened")
  => /\ reports["setup"] = 1
     /\ nRecv = 0
     /\ sent = 0
     /\ CURRENT_DIVERT = None

\* C12 (amended): while the handle has not been opened, also after opening it
\* failed, no packet is received, decided or re-injected, nothing but the setup
\* error is reported, the reference stays None and the run only moves towards
\* Closed; the setup error is printed exactly once if RUNNING is still true when
\* line 160 tests it, and not at all if it is false.
OpenFailureCloses ==
  /\ [](handle = "unopened"
        => /\ CURRENT_DIVERT = None
           /\ nRecv = 0 /\ pkt = NoPkt /\ rule = "none" /\ sent = 0
           /\ reports["recv"] = 0 /\ reports["packet"] = 0
           /\ pc \in {"idle", "open", "setup_err", "setup_report", "finally", "closed"}
           /\ pc \in {"idle", "open", "setup_err", "setup_report"} => reports["setup"] = 0
           /\ reports["setup"] <= 1)
  /\ [][(handle = "unopened" /\ pc = "setup_err" /\ pc' # pc)
          => IF RUNNING THEN pc' = "setup_report"
                        ELSE pc' = "finally" /\ reports' = reports]_vars
  /\ [][(handle = "unopened" /\ pc = "setup_report" /\ pc' # pc)
          => pc' = "finally" /\ reports'["setup"] = 1]_vars
  /\ [][(handle = "unopened" /\ pc = "finally" /\ pc' # pc)
          => pc' = "closed" /\ reports' = reports]_vars

\* C12 witness: opening failed after a stop signal, and the run closed without
\* having reported the setup error.
OpenFailureCloses_witness ==
  /\ pc = "closed"
  /\ handle = "unopened"
  /\ sigCount > 0
  /\ reports["setup"] = 0

\* the positions of the run after next(w) has raised
AfterRecvFailure ==
  {"recv_err", "recv_report", "exit_with", "setup_err", "setup_report", "finally",
   "closed"}

\* C13 (the claim as stated): when receive failed with RUNNING true and the loop
\* has ended, the receive error has been reported.
RecvFailureReported ==
  (recvFail = "running" /\ pc \in AfterRecvFailure \ {"recv_err", "recv_report"})
  => reports["recv"] = 1

\* C13 (amended): when receive failed with RUNNING true, receive is not called
\* again, no packet is received or re-injected any more, and the run reaches
\* Closed with CURRENT_DIVERT None; the receive error is printed exactly once if
\* RUNNING is still true when line 157 tests it, and not at all otherwise.
RecvFailureEndsLoop ==
  /\ [](recvFail = "running" => pc \in AfterRecvFailure /\ reports["recv"] <= 1)
  /\ [][recvFail = "running"
          => /\ nRecv' = nRecv /\ pkt' = pkt
             /\ sent' = sent /\ sendsAfterStop' = sendsAfterStop
             /\ recvFail' = recvFail]_vars
  /\ [][(recvFail = "running" /\ pc = "recv_err" /\ pc' # pc)
          => IF RUNNING THEN pc' = "recv_report"
                        ELSE pc' = "exit_with" /\ reports' = reports]_vars
  /\ [][(recvFail = "running" /\ pc = "recv_report" /\ pc' # pc)
          => pc' = "exit_with" /\ reports'["recv"] = 1]_vars
  /\ [][(recvFail = "running" /\ pc \notin {"recv_err", "recv_report"})
          => reports'["recv"] = reports["recv"]]_vars
  /\ (recvFail = "running") ~> (pc = "closed" /\ CURRENT_DIVERT = None)

\* C13 witness: receive failed with RUNNING true after a packet had been
\* handled, the error was reported and the run closed.
RecvFailureEndsLoop_witness ==
  /\ recvFail = "running"
  /\ pc = "closed"
  /\ nRecv > 0
  /\ reports["recv"] = 1
  /\ CURRENT_DIVERT = None

\* the positions at which a print of an error is the next statement
ReportPositions == {"pkt_report", "recv_report", "setup_report"}

\* C14 (the claim as stated): after the stop signal no error report of any kind
\* is emitted.
NoReportAfterStop == [][sigCount > 0 => reports' = reports]_vars

\* C14 (amended): once RUNNING is false no handler decides to report any more:
\* no print is reached from a test made after the signal, on any exit path
\* including the close that raises on leaving the with block; the only report
\* that can follow the signal is the one whose test of RUNNING had passed before
\* it. A receive that failed after the signal is never reported.
QuietAfterStop ==
  /\ [][(~RUNNING /\ pc' # pc) => pc' \notin ReportPositions]_vars
  /\ [][(~RUNNING /\ pc \notin ReportPositions) => reports' = reports]_vars
  /\ [](recvFail = "stopping" => reports["recv"] = 0)
  /\ []((recvFail = "stopping" /\ pc \in {"setup_err", "finally", "closed"})
          => reports["setup"] = 0)

\* C14 witness: the handler closed the handle, receive failed for that reason,
\* the close on leaving the with block raised in turn, and nothing was reported.
QuietAfterStop_witness ==
  /\ recvFail = "stopping"
  /\ forcedClose = "closed"
  /\ pc = "setup_err"
  /\ nRecv > 0
  /\ \A k \in ReportKinds : reports[k] = 0

\* C15 (the claim as stated): with no stop signal, a packet whose send failed is
\* lost, it is not re-injected.
FailedPacketLost == (fault /\ sigCount = 0) => sent = 0

\* C15 (amended): a failed send of a packet that passed the filter is not fatal.
\* If RUNNING is still true when line 147 tests it, the error is reported once
\* and the send is tried a second time; the packet is re-injected if that send
\* succeeds and lost if it raises too, and either way the loop is back at
\* receive with the handle and CURRENT_DIVERT as they were. If RUNNING is false
\* at the test, the loop ends without a report.
FailedSendRetried ==
  /\ [](pc \in {"pkt_err", "pkt_report", "resend"}
          => /\ fault /\ sent = 0
             /\ rule \in {"local", "port", "allowed"})
  /\ [][(pc = "pkt_err" /\ pc' # pc)
          => /\ pc' = IF RUNNING THEN "pkt_report" ELSE "exit_with"
             /\ reports' = reports /\ sent' = sent]_vars
  /\ [][(pc = "pkt_report" /\ pc' # pc)
          => /\ pc' = "resend"
             /\ reports' = [reports EXCEPT !["packet"] = @ + 1]
             /\ sent' = sent]_vars
  /\ [][(pc = "resend" /\ pc' # pc)
          => /\ pc' = "recv"
             /\ reports' = reports
             /\ sent' = sent \/ (sent' = 1 /\ handle = "open")]_vars
  /\ [][(pc \in {"pkt_err", "pkt_report", "resend"} /\ pc' # pc)
          => /\ handle' = handle /\ CURRENT_DIVERT' = CURRENT_DIVERT
             /\ pkt' = pkt /\ nRecv' = nRecv]_vars

\* C15 witness: with no stop signal a send failed, the error was reported, the
\* second send failed too, and the loop is back at receive on the open handle.
FailedSendRetried_witness ==
  /\ sigCount = 0
  /\ fault /\ sent = 0
  /\ reports["packet"] = 1
  /\ pc = "recv"
  /\ handle = "open"

(* ---------------- the handler and the ownership of RunState ---------------- *)

\* C16: _signal_stop always leaves RUNNING false and always completes, whether
\* CURRENT_DIVERT is None, refers to an open handle or to one that is not open
\* any more; whenever CURRENT_DIVERT is not None it calls close() on the handle,
\* which closes an open handle or raises into the handler's except: pass.
HandlerNeverFails ==
  /\ [](sigCount > 0 => ~RUNNING)
  /\ [](sigCount < MaxSignals => ENABLED _signal_stop)
  /\ [][sigCount' # sigCount
          => /\ sigCount' = sigCount + 1
             /\ ~RUNNING'
             /\ pc' = pc
             /\ IF CURRENT_DIVERT = None
                  THEN handle' = handle /\ forcedClose' = forcedClose
                  ELSE \/ handle = "open" /\ handle' = "closed" /\ forcedClose' = "closed"
                       \/ handle = "open" /\ handle' = "open" /\ forcedClose' = "failed"
                       \/ handle # "open" /\ handle' = handle /\ forcedClose' = "already"]_vars

\* C16 witness: a second stop signal found the reference still set on a handle
\* the first one had closed.
HandlerNeverFails_witness ==
  /\ sigCount = 2
  /\ CURRENT_DIVERT # None
  /\ handle = "closed"
  /\ forcedClose = "already"
  /\ ~RUNNING

\* C17: no step of the loop changes RUNNING; the handler leaves CURRENT_DIVERT
\* unchanged and can only take the handle from open to closed; CURRENT_DIVERT is
\* written by the loop alone (lines 116 and 163), and a handle is opened by the
\* loop alone (line 115).
SplitOwnership ==
  /\ [][sigCount' = sigCount => RUNNING' = RUNNING]_vars
  /\ [][sigCount' # sigCount
          => /\ CURRENT_DIVERT' = CURRENT_DIVERT
             /\ handle' = handle \/ (handle = "open" /\ handle' = "closed")]_vars
  /\ [][CURRENT_DIVERT' # CURRENT_DIVERT
          => /\ sigCount' = sigCount
             /\ \/ pc = "publish" /\ CURRENT_DIVERT' = "w"
                \/ pc = "finally" /\ CURRENT_DIVERT' = None]_vars
  /\ [][(handle # "open" /\ handle' = "open")
          => sigCount' = sigCount /\ pc = "open"]_vars

\* C17 witness: the handler closed the published handle and the loop then
\* cleared the reference itself.
SplitOwnership_witness ==
  /\ sigCount > 0
  /\ forcedClose = "closed"
  /\ handle = "closed"
  /\ pc = "closed"
  /\ CURRENT_DIVERT = None
  /\ ~RUNNING

(* ---------------- cost of the hot path ---------------- *)

\* C18: while the loop holds a packet whose destination is local, or whose port
\* is absent or outside the window, no step queries the database or changes
\* _IP_COUNTRY_CACHE, and the loop is never at the country lookup.
BypassSkipsLookup ==
  /\ [][(/\ pkt \in Packets
         /\ pkt.addr \in LocalAddrs \/ ~InConfiguredWindow(pkt.port)
         /\ pkt' = pkt)
          => _IP_COUNTRY_CACHE' = _IP_COUNTRY_CACHE /\ queries' = queries]_vars
  /\ []((/\ pkt \in Packets
         /\ pkt.addr \in LocalAddrs \/ ~InConfiguredWindow(pkt.port))
          => pc # "lookup" /\ country = None)

\* C18 witness: a local destination on a port inside the window was re-injected
\* with the cache still empty and the database never queried.
BypassSkipsLookup_witness ==
  /\ pkt \in Packets
  /\ pkt.addr \in LocalAddrs
  /\ pkt.port = 15001
  /\ rule = "local"
  /\ sent = 1
  /\ _GEOIP_READER
  /\ \A a \in Addrs : _IP_COUNTRY_CACHE[a] = Absent /\ queries[a] = 0

(* ---------------- sends per packet, and the flag over time ---------------- *)

\* C19: every received packet is re-injected at most once: a send succeeds only
\* for a packet not sent yet, and the retry of the per-packet handler runs only
\* after a send that did not go out.
AtMostOneSend ==
  /\ [](sent <= 1)
  /\ [](pc \in {"send", "resend"} => sent = 0)
  /\ [][sent' > sent => (sent = 0 /\ sent' = 1 /\ pkt' = pkt /\ nRecv' = nRecv)]_vars

\* C19 witness: the first send of a packet failed, the error was reported and
\* the retry re-injected the packet, once.
AtMostOneSend_witness ==
  /\ fault
  /\ sent = 1
  /\ reports["packet"] = 1
  /\ pc = "recv"

\* C20: RUNNING is true until the first stop signal and no step sets it back to
\* true; a run started with RUNNING false receives at most one packet, which it
\* neither filters nor re-injects.
StopFlagMonotone ==
  /\ [](sigCount = 0 => RUNNING)
  /\ [][~RUNNING => ~RUNNING']_vars
  /\ [](stoppedAtStart
          => /\ ~RUNNING
             /\ sent = 0 /\ sendsAfterStop = 0
             /\ nRecv <= 1
             /\ rule = "none" /\ country = None
             /\ pc \notin {"idle", "lookup", "send", "pkt_err", "pkt_report", "resend"})

\* C20 witness: a run started after a stop signal received one packet, left the
\* loop without sending it and closed.
StopFlagMonotone_witness ==
  /\ stoppedAtStart
  /\ nRecv = 1
  /\ pkt \in Packets
  /\ sent = 0
  /\ pc = "closed"

====
